---- MODULE Spec2Model ----
(***************************************************************************)
(* HandTrackerHUD: the gesture state machine of HandTracker.process_frame  *)
(* driven by the main loop (specification Spec), the QuadManager           *)
(* component (SpecQM) and the rate-limited volume worker (SpecVol).        *)
(*                                                                         *)
(* Conventions.  Python None is the empty tuple and a present value v is   *)
(* <<v>>.  A point (x, y) is <<x, y>>.  Corner indices keep the Python     *)
(* values 0..3; the tuple holding the corners is indexed from 1, so        *)
(* Python quad_points[i] is quad_points[i + 1] here.  Landmarks are taken  *)
(* after the int(x * w), int(y * h) conversion, in pixels.  math.hypot(d)  *)
(* < t on integer pixels is compared on the squares.                       *)
(***************************************************************************)
EXTENDS Integers, Sequences, FiniteSets, TLC

VARIABLES
    \* ---- HandTracker (src/src/handtracker.py) and the main loop
    quad_points, quad_active, pinched_start_time, spawned_app, voice_enabled,
    dragging_window, drag_corner_index, drag_offset,
    close_gesture_start_angle, gesture_closed_window,
    current_app,        \* AppManager.current_app
    now,                \* time.time(), in seconds since the program started
    last_track_update, last_btn_time,
    frame_io,           \* the external calls made on the frame thread in this pass of the main loop
    hold_since,         \* since when every frame showed two pinching hands and began without a quad
    timer_before,       \* pinched_start_time as the frame just processed found it
    pc,                 \* position of the main loop: "loop" or "relay"
    frame_hands,        \* results.multi_hand_landmarks of the frame just processed
    \* ---- QuadManager (src/src/hand_tracker_components/quad_manager.py)
    qm_quad_points, qm_all_app_quads, qm_quad_active, qm_resizing_window,
    qm_last,            \* the last QuadManager call: its name and arguments
    qm_calls,           \* how many QuadManager calls have been made
    \* ---- VolumeController (src/src/hand_tracker_components/volume_control.py)
    volume_queue, worker_stop, wpc, vol, latest, last_call, wake_at, vnow,
    submitted,          \* every value handed to _enqueue_volume, in order
    taken,              \* how many values the worker has dequeued
    burst_first,        \* index in submitted of the value the current drain began with
    calls,              \* the set_volume calls issued, in order
    cpc,                \* position of cleanup: "idle", "check", "join" or "returned"
    join_deadline,      \* when join(timeout=1) gives up
    cleanup_out,        \* what cleanup handed to its caller, None until it returns
    \* ---- GestureRecognizer and CloseGestureDetector
    \*      (src/src/hand_tracker_components/gesture_recognition.py)
    gr_start_angle,     \* CloseGestureDetector.gesture_start_angle
    gr_last,            \* the last call: its name, arguments and result
    \* ---- The functions that compute rectangles (quad_manager.py, handtracker.py)
    geo_last,           \* the last call: its name, arguments and result
    \* ---- VolumeController.calculate_volume_from_pinch
    \*      (src/src/hand_tracker_components/volume_control.py)
    volume_gesture_enabled,
    last_volume_set,
    vc_last,            \* the last call: its arguments, the state it met, its result
    vc_calls            \* how many calls were made

htVars == <<quad_points, quad_active, pinched_start_time, spawned_app, voice_enabled,
            dragging_window, drag_corner_index, drag_offset,
            close_gesture_start_angle, gesture_closed_window,
            current_app, now, pc, frame_hands,
            last_track_update, last_btn_time, frame_io, hold_since, timer_before>>
qmVars == <<qm_quad_points, qm_all_app_quads, qm_quad_active, qm_resizing_window,
            qm_last, qm_calls>>
volVars == <<volume_queue, worker_stop, wpc, vol, latest, last_call, wake_at, vnow,
             submitted, taken, burst_first, calls, cpc, join_deadline, cleanup_out>>
grVars == <<gr_start_angle, gr_last>>
geoVars == <<geo_last>>
pinchVars == <<volume_gesture_enabled, last_volume_set, vc_last, vc_calls>>
vars == <<htVars, qmVars, volVars, grVars, geoVars, pinchVars>>

None == <<>>
Some(v) == <<v>>
Val(o) == o[1]

Abs(x) == IF x < 0 THEN -x ELSE x
Min2(a, b) == IF a < b THEN a ELSE b
Max2(a, b) == IF a > b THEN a ELSE b
SetMin(S) == CHOOSE x \in S : \A y \in S : x <= y
SetMax(S) == CHOOSE x \in S : \A y \in S : x >= y

(***************************************************************************)
(* Program constants.                                                      *)
(***************************************************************************)
FrameW == 1280
FrameH == 720
MaxNumHands == 2
PinchThreshold == 100
CornerThreshold == 50
CloseZoneThreshold == 150
close_gesture_threshold == 17
HoldDuration == 2
MINIPLAYER_RADIUS == 25
MiniplayerW == 300
MiniplayerH == 120
TrackInfoPeriod == 1
ButtonPeriod == 1
\* The value 0 of time.time(), which the timers start with, seen from the
\* start of the program: more than any period before it.
LongAgo == -2
\* The worker's times, in tenths of a second.
MinInterval == 5
GetTimeout == 1
JoinTimeout == 10

(***************************************************************************)
(* Bounds of the model.                                                    *)
(***************************************************************************)
MaxTime == 5
\* The dispatcher: submissions made, and the clock (time.time() is far from 0
\* when the worker starts).
MaxSubmits == 3
StartTime == 5
MaxVTime == 11
\* The specification with fairness: submissions made, and how many tenths of
\* a second after StartTime its clock still counts.
MaxLiveSubmits == 2
LiveTicks == 1
LiveHorizon == StartTime + LiveTicks

\* Seconds that pass between two frames.
FrameDeltas == {1, 2}

\* Wrist angles in degrees, as get_wrist_angle returns them.
Angles == {0, 20}

\* Thumb tip and index tip of the hands that are tried.  The default quad of
\* a 1280 x 720 frame has its top-right corner at (896, 270).
ZonePoses == {
    [thumb |-> <<896, 270>>,  index |-> <<900, 280>>],   \* pinch on that corner
    [thumb |-> <<1000, 400>>, index |-> <<1000, 270>>] } \* open hand, index in the close zone

FarPoses == {
    [thumb |-> <<100, 600>>,  index |-> <<120, 620>>],   \* pinch far from it
    [thumb |-> <<300, 100>>,  index |-> <<320, 110>>] }  \* a second pinch far from it

Poses == ZonePoses \cup FarPoses

\* An open hand with the index tip on the play button of the default quad.
ButtonHand == [thumb |-> <<640, 500>>, index |-> <<640, 360>>, angle |-> 0]

\* The poses near the corner are tried with every wrist angle, the poses far
\* from it with the angle 0.
Hands ==
    {[thumb |-> p.thumb, index |-> p.index, angle |-> a] : p \in ZonePoses, a \in Angles}
        \cup {[thumb |-> p.thumb, index |-> p.index, angle |-> 0] : p \in FarPoses}
        \cup {ButtonHand}

SeqsUpTo(S, n) == UNION {[1..k -> S] : k \in 0..n}

\* Two pinching hands whose four finger tips are at one height.
FlatFrame ==
    << [thumb |-> <<200, 300>>, index |-> <<230, 300>>, angle |-> 0],
       [thumb |-> <<600, 300>>, index |-> <<640, 300>>, angle |-> 0] >>

LandmarkFrames == SeqsUpTo(Hands, MaxNumHands) \cup {FlatFrame}

Apps == {"Spotify"}

(***************************************************************************)
(* Geometry helpers of HandTracker.                                        *)
(***************************************************************************)
Dist2(p, q) == (q[1] - p[1]) * (q[1] - p[1]) + (q[2] - p[2]) * (q[2] - p[2])

is_near_corner(point, corner, threshold) == Dist2(point, corner) < threshold * threshold

\* The comparison as it would be with the threshold itself counted as pinched.
is_pinched_Inclusive(thumb_tip, index_tip, threshold) ==
    Dist2(thumb_tip, index_tip) <= threshold * threshold

is_pinched(thumb_tip, index_tip, threshold) == Dist2(thumb_tip, index_tip) < threshold * threshold

\* The rectangle as it would be if the first point gave the left side.
get_rectangle_from_points_FirstLeft(points) ==
    LET xs == {points[i][1] : i \in 1..Len(points)}
        ys == {points[i][2] : i \in 1..Len(points)}
        left == points[1][1]
        right == SetMax(xs)
        top == SetMin(ys)
        bottom == SetMax(ys)
    IN  <<<<left, top>>, <<right, top>>, <<right, bottom>>, <<left, bottom>>>>

get_rectangle_from_points(points) ==
    LET xs == {points[i][1] : i \in 1..Len(points)}
        ys == {points[i][2] : i \in 1..Len(points)}
        left == SetMin(xs)
        right == SetMax(xs)
        top == SetMin(ys)
        bottom == SetMax(ys)
    IN  <<<<left, top>>, <<right, top>>, <<right, bottom>>, <<left, bottom>>>>

\* update_quad_position as it would be if only the grabbed corner moved.
HT_update_quad_position_OneCorner(qp, new_corner_pos, corner_index) ==
    IF Len(qp) # 4 THEN qp
    ELSE [qp EXCEPT ![corner_index + 1] = new_corner_pos]

HT_update_quad_position(qp, new_corner_pos, corner_index) ==
    IF Len(qp) # 4 THEN qp
    ELSE LET old_corner == qp[corner_index + 1]
             dx == new_corner_pos[1] - old_corner[1]
             dy == new_corner_pos[2] - old_corner[2]
         IN  [i \in 1..4 |-> <<qp[i][1] + dx, qp[i][2] + dy>>]

pinch_center(hand) ==
    <<(hand.thumb[1] + hand.index[1]) \div 2, (hand.thumb[2] + hand.index[2]) \div 2>>

\* The default rectangle centred in the frame (process_frame, lines 346-359).
default_quad(h, w) ==
    LET box_w == Max2(100, Min2((w * 4) \div 10, w - 40))
        box_h == Max2(80, Min2((h * 25) \div 100, h - 40))
        cx == w \div 2
        cy == h \div 2
        left == cx - box_w \div 2
        right == cx + box_w \div 2
        top == cy - box_h \div 2
        bottom == cy + box_h \div 2
    IN  <<<<left, top>>, <<right, top>>, <<right, bottom>>, <<left, bottom>>>>

(***************************************************************************)
(* HandTracker.process_frame on the record s of the tracker's fields;      *)
(* s.pts is the local list quad_points of the frame.                       *)
(***************************************************************************)
HasQuad(qp) == Len(qp) = 4

\* The rotation without wraparound, as it would be without lines 155-156.
angle_diff_NoWrap(current_angle, start_angle) == Abs(current_angle - start_angle)

\* Lines 152-156 (gesture_recognition.py 105-108): the rotation between the
\* start angle and the current angle, the shorter way round.
angle_diff(current_angle, start_angle) ==
    LET raw == Abs(current_angle - start_angle)
    IN  IF raw > 180 THEN 360 - raw ELSE raw

\* check_close_gesture: [ret, s] with s the tracker after the call.
check_close_gesture(s, hand) ==
    IF ~HasQuad(s.quad_points) THEN [ret |-> FALSE, s |-> s]
    ELSE IF ~is_near_corner(hand.index, s.quad_points[2], CloseZoneThreshold)
    THEN [ret |-> FALSE, s |-> [s EXCEPT !.close_gesture_start_angle = None]]
    ELSE IF s.close_gesture_start_angle = None
    THEN [ret |-> FALSE, s |-> [s EXCEPT !.close_gesture_start_angle = Some(hand.angle)]]
    ELSE LET d == angle_diff(hand.angle, Val(s.close_gesture_start_angle))
         IN  IF d >= close_gesture_threshold
             THEN [ret |-> TRUE, s |-> [s EXCEPT !.close_gesture_start_angle = None]]
             ELSE [ret |-> FALSE, s |-> s]

\* Lines 258-265: the window is closed by the gesture.
CloseWindow(s) ==
    [s EXCEPT !.quad_points = <<>>, !.quad_active = FALSE, !.spawned_app = None,
              !.gesture_closed_window = TRUE]

\* Lines 267-291: start, continue or stop dragging.
DragBlock(s, hand) ==
    IF ~HasQuad(s.quad_points) THEN s
    ELSE IF is_pinched(hand.thumb, hand.index, PinchThreshold)
    THEN IF ~s.dragging_window
         THEN LET near(i) ==
                      \/ is_near_corner(hand.thumb, s.quad_points[i + 1], CornerThreshold)
                      \/ is_near_corner(hand.index, s.quad_points[i + 1], CornerThreshold)
                  start(i) ==
                      LET c == pinch_center(hand)
                          corner == s.quad_points[i + 1]
                      IN  [s EXCEPT !.dragging_window = TRUE,
                                    !.drag_corner_index = Some(i),
                                    !.drag_offset = <<c[1] - corner[1], c[2] - corner[2]>>]
              IN  IF near(0) THEN start(0) ELSE IF near(1) THEN start(1) ELSE s
         ELSE LET c == pinch_center(hand)
                  new_corner_pos == <<c[1] - s.drag_offset[1], c[2] - s.drag_offset[2]>>
              IN  [s EXCEPT !.quad_points =
                       HT_update_quad_position(s.quad_points, new_corner_pos,
                                               Val(s.drag_corner_index))]
    ELSE IF s.dragging_window
         THEN [s EXCEPT !.dragging_window = FALSE, !.drag_corner_index = None,
                        !.drag_offset = <<0, 0>>]
         ELSE s

\* The collection of pinch points as it would be without the dragging test.
CollectPinch_IgnoreDragging(s, hand) ==
    IF is_pinched(hand.thumb, hand.index, PinchThreshold)
    THEN [s EXCEPT !.pts = s.pts \o <<hand.thumb, hand.index>>]
    ELSE s

\* Lines 293-296: a pinching hand that is not dragging gives two points.
CollectPinch(s, hand) ==
    IF ~s.dragging_window /\ is_pinched(hand.thumb, hand.index, PinchThreshold)
    THEN [s EXCEPT !.pts = s.pts \o <<hand.thumb, hand.index>>]
    ELSE s

\* The body of the loop as it would be without the `continue` of line 265.
HandBody_NoContinue(s, hand) ==
    LET c == check_close_gesture(s, hand)
    IN  CollectPinch(DragBlock(IF c.ret THEN CloseWindow(c.s) ELSE c.s, hand), hand)

\* Lines 241-303: the body of the loop for one hand.
HandBody(s, hand) ==
    LET c == check_close_gesture(s, hand)
    IN  IF c.ret THEN CloseWindow(c.s)
        ELSE CollectPinch(DragBlock(c.s, hand), hand)

RECURSIVE HandLoop(_, _)
HandLoop(s, hands) ==
    IF hands = <<>> THEN s ELSE HandLoop(HandBody(s, Head(hands)), Tail(hands))

\* The timer as it would be if an interruption left it running.
reset_timer_Keep(s) == s

\* Lines 333, 335 and 338: the pinch timer is cleared.
reset_timer(s) == [s EXCEPT !.pinched_start_time = None]

\* Lines 305-338: the pinch timer and the commit of a new quad.
CreateBlock(s, hands, t) ==
    IF hands = <<>> THEN reset_timer(s)
    ELSE IF Len(s.pts) # 4 THEN reset_timer(s)
    ELSE IF HasQuad(s.quad_points) THEN reset_timer(s)
    ELSE LET start == IF s.pinched_start_time = None THEN Some(t) ELSE s.pinched_start_time
             live_rect == get_rectangle_from_points(s.pts)
             s1 == [s EXCEPT !.pinched_start_time = start]
         IN  IF s1.spawned_app # None
             THEN [s1 EXCEPT !.quad_points = live_rect, !.quad_active = TRUE]
             ELSE IF t - Val(start) >= HoldDuration
                  THEN [s1 EXCEPT !.quad_points = live_rect, !.quad_active = TRUE,
                                  !.spawned_app = IF ~s1.voice_enabled THEN Some("Spotify")
                                                  ELSE s1.spawned_app]
                  ELSE s1

\* Lines 344-359: a requested app with no quad gets the default rectangle.
DefaultBlock(s) ==
    IF s.spawned_app # None /\ ~HasQuad(s.quad_points)
    THEN [s EXCEPT !.quad_points = default_quad(FrameH, FrameW), !.quad_active = TRUE]
    ELSE s

\* int(): truncation towards zero, of the quotient a / b with b > 0.
TruncDiv(a, b) == IF a >= 0 THEN a \div b ELSE -((-a) \div b)

MINIPLAYER_BUTTONS ==
    {[btn |-> "prev", center |-> <<50, 60>>, call |-> "previous_track"],
     [btn |-> "play", center |-> <<150, 60>>, call |-> "toggle_play_pause"],
     [btn |-> "next", center |-> <<250, 60>>, call |-> "next_track"]}

\* A rectangle without width or without height.
Degenerate(rect_points) ==
    \/ rect_points[2][1] = rect_points[1][1]
    \/ rect_points[4][2] = rect_points[1][2]

\* What the transform of a rectangle without area may give: its equations
\* are singular and the point returned is whatever the solver leaves, here a
\* point on no button or the centre of the play button.
SingularPoints == {<<0, 0>>, <<150, 60>>}

\* screen_to_miniplayer for a rectangle with sides parallel to the axes,
\* ordered from the top-left corner: with positive width and height the
\* perspective transform onto (0,0)-(300,120) is the scaling below, and
\* without them it is the point `singular`.
screen_to_miniplayer(pt, rect_points, singular) ==
    LET x0 == rect_points[1][1]
        y0 == rect_points[1][2]
        w  == rect_points[2][1] - x0
        h  == rect_points[4][2] - y0
    IN  IF Degenerate(rect_points) THEN singular
        ELSE <<TruncDiv((pt[1] - x0) * MiniplayerW, w),
               TruncDiv((pt[2] - y0) * MiniplayerH, h)>>

\* math.hypot(p - c) < r; the squares are taken only of differences below r.
Within(p, c, r) ==
    /\ Abs(p[1] - c[1]) < r
    /\ Abs(p[2] - c[2]) < r
    /\ Dist2(p, c) < r * r

\* Lines 411-432 for one hand: a button under the index tip is pressed, at
\* most once per ButtonPeriod, by calling the playback function.
ButtonBody(s, hand, t, singular) ==
    LET miniplayer_xy == screen_to_miniplayer(hand.index, s.quad_points, singular)
        hit == {b \in MINIPLAYER_BUTTONS : Within(miniplayer_xy, b.center, MINIPLAYER_RADIUS)}
    IN  IF hit # {} /\ t - s.last_btn_time > ButtonPeriod
        THEN [s EXCEPT !.io = @ \cup {(CHOOSE b \in hit : TRUE).call},
                       !.last_btn_time = t]
        ELSE s

RECURSIVE ButtonLoop(_, _, _, _)
ButtonLoop(s, hands, t, singular) ==
    IF hands = <<>> THEN s
    ELSE ButtonLoop(ButtonBody(s, Head(hands), t, singular), Tail(hands), t, singular)

\* Lines 361 and 409-432: the buttons are looked at when a region is shown.
ButtonBlock(s, hands, t, singular) ==
    IF s.quad_active /\ Len(s.quad_points) = 4 THEN ButtonLoop(s, hands, t, singular) ELSE s

\* Lines 235-359: the hand loop, the creation of a region and the default
\* region.
GestureBlocks(s, hands, t) ==
    DefaultBlock(CreateBlock(HandLoop([s EXCEPT !.pts = <<>>], hands), hands, t))

\* The points the transform of this frame may return where it is singular.
SingularChoices(s, hands) ==
    IF s.quad_active /\ Len(s.quad_points) = 4 /\ hands # <<>> /\ Degenerate(s.quad_points)
    THEN SingularPoints ELSE {<<0, 0>>}

process_frame(s, hands, t, singular) ==
    ButtonBlock(GestureBlocks(s, hands, t), hands, t, singular)

Tracker ==
    [quad_points |-> quad_points, quad_active |-> quad_active,
     pinched_start_time |-> pinched_start_time, spawned_app |-> spawned_app,
     voice_enabled |-> voice_enabled, dragging_window |-> dragging_window,
     drag_corner_index |-> drag_corner_index, drag_offset |-> drag_offset,
     close_gesture_start_angle |-> close_gesture_start_angle,
     gesture_closed_window |-> gesture_closed_window,
     last_btn_time |-> last_btn_time, pts |-> <<>>, io |-> {}]

SetTracker(s) ==
    /\ quad_points' = s.quad_points
    /\ quad_active' = s.quad_active
    /\ pinched_start_time' = s.pinched_start_time
    /\ spawned_app' = s.spawned_app
    /\ voice_enabled' = s.voice_enabled
    /\ dragging_window' = s.dragging_window
    /\ drag_corner_index' = s.drag_corner_index
    /\ drag_offset' = s.drag_offset
    /\ close_gesture_start_angle' = s.close_gesture_start_angle
    /\ gesture_closed_window' = s.gesture_closed_window
    /\ last_btn_time' = s.last_btn_time
    /\ frame_io' = s.io

(***************************************************************************)
(* Initial state: HandTracker.__init__, AppManager.__init__,               *)
(* QuadManager.__init__ and VolumeController.__init__.                     *)
(***************************************************************************)
InitHT ==
    /\ quad_points = <<>>
    /\ quad_active = TRUE
    /\ pinched_start_time = None
    /\ spawned_app = None
    /\ voice_enabled = TRUE
    /\ dragging_window = FALSE
    /\ drag_corner_index = None
    /\ drag_offset = <<0, 0>>
    /\ close_gesture_start_angle = None
    /\ gesture_closed_window = FALSE
    /\ current_app = None
    /\ now = 0
    /\ pc = "loop"
    /\ frame_hands = <<>>
    /\ last_track_update = LongAgo
    /\ last_btn_time = LongAgo
    /\ frame_io = {}
    /\ hold_since = None
    /\ timer_before = None

InitQM ==
    /\ qm_quad_points = <<>>
    /\ qm_all_app_quads = <<>>
    /\ qm_quad_active = TRUE
    /\ qm_resizing_window = FALSE
    /\ qm_last = None
    /\ qm_calls = 0

InitVol ==
    /\ volume_queue = <<>>
    /\ worker_stop = FALSE
    /\ wpc = "loop"
    /\ vol = None
    /\ latest = None
    /\ last_call = 0
    /\ wake_at = 0
    /\ vnow = StartTime
    /\ submitted = <<>>
    /\ taken = 0
    /\ burst_first = 0
    /\ calls = <<>>
    /\ cpc = "idle"
    /\ join_deadline = 0
    /\ cleanup_out = None

InitGR ==
    /\ gr_start_angle = None
    /\ gr_last = None

InitGeo == geo_last = None

\* VolumeController.__init__, lines 19-21.
InitPinch ==
    /\ volume_gesture_enabled = FALSE
    /\ last_volume_set = 0
    /\ vc_last = None
    /\ vc_calls = 0

Init == InitHT /\ InitQM /\ InitVol /\ InitGR /\ InitGeo /\ InitPinch

(***************************************************************************)
(* The main loop (src/src/main.py) around HandTracker.                     *)
(***************************************************************************)
Pinching(hand) == is_pinched(hand.thumb, hand.index, PinchThreshold)

\* The frame shows exactly 4 pinch points: two hands, both pinching.
FourPinchPoints(hands) == Len(hands) = 2 /\ \A i \in 1..2 : Pinching(hands[i])

\* main.py line 64: one frame goes through process_frame.
ProcessFrame ==
    /\ pc = "loop"
    /\ \E hands \in LandmarkFrames, dt \in FrameDeltas :
          /\ now + dt <= MaxTime
          /\ now' = now + dt
          /\ \E singular \in SingularChoices(GestureBlocks(Tracker, hands, now + dt), hands) :
                SetTracker(process_frame(Tracker, hands, now + dt, singular))
          /\ frame_hands' = hands
          /\ hold_since' = IF FourPinchPoints(hands) /\ ~HasQuad(quad_points)
                            THEN (IF hold_since = None THEN Some(now + dt) ELSE hold_since)
                            ELSE None
    /\ timer_before' = pinched_start_time
    /\ pc' = "relay"
    /\ UNCHANGED <<current_app, last_track_update, qmVars, volVars, grVars, geoVars, pinchVars>>

\* get_cached_track_info: get_current_track is called when the cached
\* value is older than TrackInfoPeriod.
track_info_is_stale(t, last_update) == t - last_update > TrackInfoPeriod

\* The close as it would be if it left the app in place.
close_app_Keep(app) == app

\* AppManager.close_app: no app is current afterwards.
close_app(app) == None

\* main.py lines 66-81: spawn requests and gesture closes go to AppManager,
\* and the track information is fetched for a shown Spotify region.
Relay ==
    /\ pc = "relay"
    /\ LET spawn == spawned_app # None /\ current_app = None
           spawned == IF spawn THEN spawned_app ELSE current_app
           app == IF gesture_closed_window THEN close_app(spawned) ELSE spawned
           fetch == /\ quad_active /\ Len(quad_points) = 4 /\ app = Some("Spotify")
                    /\ track_info_is_stale(now, last_track_update)
       IN  /\ spawned_app' = IF spawn THEN None ELSE spawned_app
           /\ current_app' = app
           /\ last_track_update' = IF fetch THEN now ELSE last_track_update
           /\ frame_io' = IF fetch THEN frame_io \cup {"get_current_track"} ELSE frame_io
    /\ gesture_closed_window' = FALSE
    /\ pc' = "loop"
    /\ frame_hands' = <<>>
    /\ timer_before' = None
    /\ UNCHANGED <<quad_points, quad_active, pinched_start_time, voice_enabled,
                   dragging_window, drag_corner_index, drag_offset,
                   close_gesture_start_angle, now, last_btn_time, hold_since,
                   qmVars, volVars, grVars, geoVars, pinchVars>>

\* main.py lines 53-62 and AppManager.handle_command, "open <app>": spawn_app
\* and spawn_miniplayer.
CmdSpawn ==
    /\ pc = "loop"
    /\ voice_enabled
    /\ \E name \in Apps :
          /\ current_app' = Some(name)
          /\ spawned_app' = Some(name)
    /\ quad_active' = TRUE
    /\ UNCHANGED <<quad_points, pinched_start_time, voice_enabled, dragging_window,
                   drag_corner_index, drag_offset, close_gesture_start_angle,
                   gesture_closed_window, now, pc, frame_hands, last_track_update,
                   last_btn_time, frame_io, hold_since, timer_before, qmVars, volVars, grVars, geoVars, pinchVars>>

\* HandTracker.toggle_quad.
toggle_quad(active, qp) ==
    LET new_active == ~active
    IN  [quad_active |-> new_active, quad_points |-> IF ~new_active THEN <<>> ELSE qp]

\* main.py lines 53-62 and AppManager.handle_command, "close spotify": close_app,
\* clear the request, toggle_quad.
CmdClose ==
    /\ pc = "loop"
    /\ voice_enabled
    /\ current_app' = None
    /\ spawned_app' = None
    /\ quad_active' = toggle_quad(quad_active, quad_points).quad_active
    /\ quad_points' = toggle_quad(quad_active, quad_points).quad_points
    /\ UNCHANGED <<pinched_start_time, voice_enabled, dragging_window,
                   drag_corner_index, drag_offset, close_gesture_start_angle,
                   gesture_closed_window, now, pc, frame_hands, last_track_update,
                   last_btn_time, frame_io, hold_since, timer_before, qmVars, volVars, grVars, geoVars, pinchVars>>

\* main.py line 200: a key press calls toggle_quad.
KeyToggleQuad ==
    /\ pc = "loop"
    /\ quad_active' = toggle_quad(quad_active, quad_points).quad_active
    /\ quad_points' = toggle_quad(quad_active, quad_points).quad_points
    /\ UNCHANGED <<pinched_start_time, spawned_app, voice_enabled, dragging_window,
                   drag_corner_index, drag_offset, close_gesture_start_angle,
                   gesture_closed_window, current_app, now, pc, frame_hands, last_track_update,
                   last_btn_time, frame_io, hold_since, timer_before,
                   qmVars, volVars, grVars, geoVars, pinchVars>>

\* main.py lines 133-134: a key press switches voice control on or off.
KeyToggleVoice ==
    /\ pc = "loop"
    /\ voice_enabled' = ~voice_enabled
    /\ UNCHANGED <<quad_points, quad_active, pinched_start_time, spawned_app,
                   dragging_window, drag_corner_index, drag_offset,
                   close_gesture_start_angle, gesture_closed_window, current_app,
                   now, pc, frame_hands, last_track_update,
                   last_btn_time, frame_io, hold_since, timer_before, qmVars, volVars, grVars, geoVars, pinchVars>>

Next ==
    \/ ProcessFrame
    \/ Relay
    \/ CmdSpawn
    \/ CmdClose
    \/ KeyToggleQuad
    \/ KeyToggleVoice

Spec == Init /\ [][Next]_vars

(***************************************************************************)
(* Claims about the frame driver, checked under Spec.                      *)
(***************************************************************************)
\* The manipulation modes: Creating is the armed hold timer, Dragging the
\* drag flag; resizing_window exists on QuadManager alone.
ModeActive(m) ==
    CASE m = "Creating" -> pinched_start_time # None
      [] m = "Dragging" -> dragging_window
      [] m = "Resizing" -> qm_resizing_window

\* An axis-aligned rectangle ordered top-left, top-right, bottom-right,
\* bottom-left, of non-negative width and height.
IsOrderedRectangle(qp) ==
    /\ Len(qp) = 4
    /\ qp[1][2] = qp[2][2]
    /\ qp[4][2] = qp[3][2]
    /\ qp[1][1] = qp[4][1]
    /\ qp[2][1] = qp[3][1]
    /\ qp[1][1] <= qp[2][1]
    /\ qp[1][2] <= qp[4][2]

\* C1: at most one of the modes Creating, Dragging and Resizing is active,
\* after every processed frame and between frames.
C1_Exclusivity ==
    Cardinality({m \in {"Creating", "Dragging", "Resizing"} : ModeActive(m)}) <= 1

\* A frame with two pinching hands has just been processed while the drag
\* flag is set and no region exists.
C1_Witness ==
    /\ pc = "relay"
    /\ dragging_window
    /\ quad_points = <<>>
    /\ Len(frame_hands) = 2
    /\ \A i \in 1..2 : Pinching(frame_hands[i])

\* C2: after a frame in which the close gesture fired, the region is gone
\* and no drag session is left: dragging_window is false and the drag
\* corner and offset are cleared.
C2_CloseAbortsSession ==
    (pc = "relay" /\ gesture_closed_window) =>
        /\ quad_points = <<>>
        /\ ~dragging_window
        /\ drag_corner_index = None
        /\ drag_offset = <<0, 0>>

\* C3: after a frame that contains no hands the manager is not Dragging.
C3_HandLossAbortsDrag ==
    (pc = "relay" /\ frame_hands = <<>>) => ~dragging_window

\* C4: after a frame that contains no hands no start angle is latched in
\* the close-gesture tracker.
C4_HandLossEvictsTracker ==
    (pc = "relay" /\ frame_hands = <<>>) => close_gesture_start_angle = None

\* C5: a frame that begins with no start angle latched for any hand closes
\* no region: a hand's angle is compared only with its own earlier angle.
C5_TrackerPerHand ==
    [][(pc = "loop" /\ close_gesture_start_angle = None) => ~gesture_closed_window']_vars

\* C9: quad_points is empty or an ordered axis-aligned rectangle of
\* non-negative width and height, in every reachable state.
C9_RegionInvariant ==
    quad_points = <<>> \/ IsOrderedRectangle(quad_points)

\* A region that a drag has moved partly out of the frame, to the left.
C9_Witness ==
    /\ pc = "relay"
    /\ HasQuad(quad_points)
    /\ dragging_window
    /\ quad_points[1][1] < 0

(***************************************************************************)
(* QuadManager (src/src/hand_tracker_components/quad_manager.py), called   *)
(* method by method.                                                       *)
(***************************************************************************)
MaxCoord == 3
MaxQuads == 2
MaxCalls == 4

\* Pinch positions and corner points handed to QuadManager.
QMPoints == {<<0, 0>>, <<2, 1>>}

QMApps == {None, Some("Spotify")}

\* Arguments of update_quad_resize: lists of (corner index, position).
CornerPositions == SeqsUpTo((0..3) \X QMPoints, 2) \ {<<>>}

InRange(qp) ==
    \A i \in 1..Len(qp) : \A k \in 1..2 : qp[i][k] >= -MaxCoord /\ qp[i][k] <= MaxCoord

are_opposite_corners(corner1, corner2) ==
    LET opposite_pairs == {<<0, 2>>, <<1, 3>>}
    IN  <<corner1, corner2>> \in opposite_pairs \/ <<corner2, corner1>> \in opposite_pairs

\* update_quad_resize as it would be without lines 61-73: only the two given
\* corners are written.
update_quad_resize_NoRecompute(qp, corner_positions) ==
    IF Len(qp) # 4 \/ Len(corner_positions) # 2 THEN qp
    ELSE [qp EXCEPT ![corner_positions[1][1] + 1] = corner_positions[1][2],
                    ![corner_positions[2][1] + 1] = corner_positions[2][2]]

update_quad_resize(qp, corner_positions) ==
    IF Len(qp) # 4 \/ Len(corner_positions) # 2 THEN qp
    ELSE LET corner1_idx == corner_positions[1][1]
             corner1_pos == corner_positions[1][2]
             corner2_idx == corner_positions[2][1]
             corner2_pos == corner_positions[2][2]
             q1 == [qp EXCEPT ![corner1_idx + 1] = corner1_pos]
             q2 == [q1 EXCEPT ![corner2_idx + 1] = corner2_pos]
         IN  IF are_opposite_corners(corner1_idx, corner2_idx)
             THEN IF corner1_idx = 0 /\ corner2_idx = 2
                  THEN [q2 EXCEPT ![2] = <<corner2_pos[1], corner1_pos[2]>>,
                                  ![4] = <<corner1_pos[1], corner2_pos[2]>>]
                  ELSE IF corner1_idx = 1 /\ corner2_idx = 3
                  THEN [q2 EXCEPT ![1] = <<corner2_pos[1], corner1_pos[2]>>,
                                  ![3] = <<corner1_pos[1], corner2_pos[2]>>]
                  ELSE IF corner1_idx = 2 /\ corner2_idx = 0
                  THEN [q2 EXCEPT ![2] = <<corner1_pos[1], corner2_pos[2]>>,
                                  ![4] = <<corner2_pos[1], corner1_pos[2]>>]
                  ELSE IF corner1_idx = 3 /\ corner2_idx = 1
                  THEN [q2 EXCEPT ![1] = <<corner1_pos[1], corner2_pos[2]>>,
                                  ![3] = <<corner2_pos[1], corner1_pos[2]>>]
                  ELSE q2
             ELSE q2

\* update_quad_position as it would be if the corner after the grabbed one
\* were left where it is.
update_quad_position_LeaveOne(qp, new_corner_pos, corner_index) ==
    IF Len(qp) # 4 THEN qp
    ELSE LET old_corner == qp[corner_index + 1]
             dx == new_corner_pos[1] - old_corner[1]
             dy == new_corner_pos[2] - old_corner[2]
             stay == ((corner_index + 1) % 4) + 1
         IN  [i \in 1..4 |-> IF i = stay THEN qp[i] ELSE <<qp[i][1] + dx, qp[i][2] + dy>>]

update_quad_position(qp, new_corner_pos, corner_index) ==
    IF Len(qp) # 4 THEN qp
    ELSE LET old_corner == qp[corner_index + 1]
             dx == new_corner_pos[1] - old_corner[1]
             dy == new_corner_pos[2] - old_corner[2]
         IN  [i \in 1..4 |-> <<qp[i][1] + dx, qp[i][2] + dy>>]

create_default_quad(h, w) ==
    LET box_w == Max2(100, Min2((w * 4) \div 10, w - 40))
        box_h == Max2(80, Min2((h * 25) \div 100, h - 40))
        cx == w \div 2
        cy == h \div 2
        left == cx - box_w \div 2
        right == cx + box_w \div 2
        top == cy - box_h \div 2
        bottom == cy + box_h \div 2
    IN  <<<<left, top>>, <<right, top>>, <<right, bottom>>, <<left, bottom>>>>

\* str.lower() of the app names that are tried.
Lower(name) == IF name = "Spotify" THEN "spotify" ELSE name

\* get_all_app_regions: the entries with an app and four points.
get_all_app_regions(all_app_quads) ==
    LET keep == {i \in 1..Len(all_app_quads) :
                    all_app_quads[i].app # None /\ Len(all_app_quads[i].quad_points) = 4}
        RECURSIVE Build(_)
        Build(i) ==
            IF i > Len(all_app_quads) THEN <<>>
            ELSE (IF i \in keep
                  THEN <<[app_id |-> Lower(Val(all_app_quads[i].app)),
                          rect_points |-> all_app_quads[i].quad_points,
                          opacity_percent |-> 90]>>
                  ELSE <<>>) \o Build(i + 1)
    IN  Build(1)

QM_create_quad ==
    /\ qm_calls < MaxCalls
    /\ qm_calls' = qm_calls + 1
    /\ Len(qm_all_app_quads) < MaxQuads
    /\ \E p \in QMPoints, q \in QMPoints, app_name \in QMApps :
          LET points == get_rectangle_from_points(<<p, q>>)
          IN  /\ qm_all_app_quads' =
                     Append(qm_all_app_quads, [quad_points |-> points, app |-> app_name])
              /\ qm_quad_points' = points
              /\ qm_last' = [op |-> "create_quad", args |-> <<points, app_name>>]
    /\ qm_quad_active' = TRUE
    /\ UNCHANGED <<qm_resizing_window, htVars, volVars, grVars, geoVars, pinchVars>>

QM_create_default_quad ==
    /\ qm_calls < MaxCalls
    /\ qm_calls' = qm_calls + 1
    /\ qm_quad_points' = create_default_quad(FrameH, FrameW)
    /\ qm_quad_active' = TRUE
    /\ qm_last' = [op |-> "create_default_quad", args |-> <<FrameH, FrameW>>]
    /\ UNCHANGED <<qm_all_app_quads, qm_resizing_window, htVars, volVars, grVars, geoVars, pinchVars>>

QM_toggle_quad ==
    /\ qm_calls < MaxCalls
    /\ qm_calls' = qm_calls + 1
    /\ qm_quad_active' = ~qm_quad_active
    /\ qm_quad_points' = IF ~qm_quad_active' THEN <<>> ELSE qm_quad_points
    /\ qm_last' = [op |-> "toggle_quad", args |-> <<>>]
    /\ UNCHANGED <<qm_all_app_quads, qm_resizing_window, htVars, volVars, grVars, geoVars, pinchVars>>

QM_update_quad_position ==
    /\ qm_calls < MaxCalls
    /\ qm_calls' = qm_calls + 1
    /\ \E new_corner_pos \in QMPoints, corner_index \in 0..3 :
          /\ qm_quad_points' =
                 update_quad_position(qm_quad_points, new_corner_pos, corner_index)
          /\ qm_last' = [op |-> "update_quad_position",
                         args |-> <<new_corner_pos, corner_index>>]
    /\ InRange(qm_quad_points')
    /\ UNCHANGED <<qm_all_app_quads, qm_quad_active, qm_resizing_window, htVars, volVars, grVars, geoVars, pinchVars>>

QM_update_quad_resize ==
    /\ qm_calls < MaxCalls
    /\ qm_calls' = qm_calls + 1
    /\ \E corner_positions \in CornerPositions :
          /\ qm_quad_points' = update_quad_resize(qm_quad_points, corner_positions)
          /\ qm_last' = [op |-> "update_quad_resize", args |-> corner_positions]
    /\ UNCHANGED <<qm_all_app_quads, qm_quad_active, qm_resizing_window, htVars, volVars, grVars, geoVars, pinchVars>>

QM_get_all_app_regions ==
    /\ qm_calls < MaxCalls
    /\ qm_calls' = qm_calls + 1
    /\ qm_last' = [op |-> "get_all_app_regions", args |-> <<>>,
                   ret |-> get_all_app_regions(qm_all_app_quads)]
    /\ UNCHANGED <<qm_quad_points, qm_all_app_quads, qm_quad_active, qm_resizing_window,
                   htVars, volVars, grVars, geoVars, pinchVars>>

NextQM ==
    \/ QM_get_all_app_regions
    \/ QM_create_quad
    \/ QM_create_default_quad
    \/ QM_toggle_quad
    \/ QM_update_quad_position
    \/ QM_update_quad_resize

SpecQM == Init /\ [][NextQM]_vars

(***************************************************************************)
(* Claims about QuadManager, checked under SpecQM.                         *)
(***************************************************************************)
LastOp(name) == qm_last # None /\ qm_last.op = name

\* C6: every update_quad_position on a region moves all four corners by
\* one identical delta, the one that takes the given corner to the target,
\* so width and height do not change.
C6_DragTranslates ==
    [][(qm_last' # None /\ qm_last'.op = "update_quad_position" /\ HasQuad(qm_quad_points)) =>
          LET new_corner_pos == qm_last'.args[1]
              corner_index == qm_last'.args[2]
              dx == new_corner_pos[1] - qm_quad_points[corner_index + 1][1]
              dy == new_corner_pos[2] - qm_quad_points[corner_index + 1][2]
          IN  /\ Len(qm_quad_points') = 4
              /\ \A i \in 1..4 :
                    qm_quad_points'[i] = <<qm_quad_points[i][1] + dx, qm_quad_points[i][2] + dy>>
       ]_vars

\* A region has been dragged by its bottom-left corner to a place where it
\* was not created.
C6_Witness ==
    /\ LastOp("update_quad_position")
    /\ HasQuad(qm_quad_points)
    /\ qm_last.args[2] = 3
    /\ qm_quad_points[4] = qm_last.args[1]
    /\ qm_quad_points[1][2] < 0

IsDiagonalCall(corner_positions) ==
    /\ Len(corner_positions) = 2
    /\ {corner_positions[1][1], corner_positions[2][1]} \in {{0, 2}, {1, 3}}

\* C7: after update_quad_resize with a diagonal corner pair the region is
\* an ordered axis-aligned rectangle of non-negative width and height.
C7_ResizeKeepsRectangle ==
    (LastOp("update_quad_resize") /\ IsDiagonalCall(qm_last.args) /\ HasQuad(qm_quad_points))
        => IsOrderedRectangle(qm_quad_points)

\* C8: update_quad_resize with two corners that are no diagonal pair
\* changes neither the corner points nor the mode.
C8_SameSideResizeRejected ==
    [][(qm_last' # None /\ qm_last'.op = "update_quad_resize"
            /\ Len(qm_last'.args) = 2 /\ ~IsDiagonalCall(qm_last'.args)) =>
          /\ qm_quad_points' = qm_quad_points
          /\ qm_resizing_window' = qm_resizing_window
       ]_vars

(***************************************************************************)
(* VolumeController (src/src/hand_tracker_components/volume_control.py):   *)
(* _enqueue_volume on the frame thread, _volume_worker on its own thread.  *)
(* HandTracker._enqueue_volume and HandTracker._volume_worker are the same *)
(* code.  Time is counted in tenths of a second.                           *)
(***************************************************************************)

\* Volume levels that are submitted.
Volumes == {10, 20, 35}

\* The hand-over as it would be if a value were dropped while one is waiting.
enqueue_volume_DropWhenBusy(q, volume) == IF q = <<>> THEN <<volume>> ELSE q

\* _enqueue_volume: queue.Queue() is unbounded, so put_nowait never raises Full.
enqueue_volume(q, volume) == Append(q, volume)

\* The drain as it would be if it kept the first value it was given.
DrainStep_KeepFirst(cur, got) == cur

\* What one get_nowait of the drain loop leaves in latest (line 79).
DrainStep(cur, got) == got

workerVars == <<wpc, vol, latest, last_call, wake_at, taken, burst_first, calls>>
cleanupVars == <<cpc, join_deadline, cleanup_out>>

\* The frame thread hands a value to _enqueue_volume.
Submit ==
    /\ Len(submitted) < MaxSubmits
    /\ \E volume \in Volumes :
          /\ volume_queue' = enqueue_volume(volume_queue, volume)
          /\ submitted' = Append(submitted, volume)
    /\ UNCHANGED <<worker_stop, workerVars, vnow, cleanupVars, htVars, qmVars, grVars, geoVars, pinchVars>>

\* cleanup, line 96: the stop signal.
Cleanup ==
    /\ cpc = "idle"
    /\ worker_stop' = TRUE
    /\ cpc' = "check"
    /\ UNCHANGED <<volume_queue, workerVars, vnow, submitted, join_deadline, cleanup_out,
                   htVars, qmVars, grVars, geoVars, pinchVars>>

\* cleanup, lines 97-98: is_alive(); a live worker is joined with a timeout
\* of one second, otherwise cleanup returns (None, without raising).
CleanupCheck ==
    /\ cpc = "check"
    /\ IF wpc # "done"
       THEN /\ cpc' = "join"
            /\ join_deadline' = vnow + JoinTimeout
            /\ UNCHANGED cleanup_out
       ELSE /\ cpc' = "returned"
            /\ cleanup_out' = Some([raised |-> FALSE, warning |-> FALSE])
            /\ UNCHANGED join_deadline
    /\ UNCHANGED <<volume_queue, worker_stop, workerVars, vnow, submitted, htVars, qmVars, grVars, geoVars, pinchVars>>

\* cleanup, line 98: join(timeout=1) returns when the worker has ended or
\* the timeout has passed; its outcome is not looked at and cleanup returns
\* (None, without raising).  The deadline is a local of join and ends with it.
CleanupJoin ==
    /\ cpc = "join"
    /\ wpc = "done" \/ vnow >= join_deadline
    /\ cpc' = "returned"
    /\ cleanup_out' = Some([raised |-> FALSE, warning |-> FALSE])
    /\ join_deadline' = 0
    /\ UNCHANGED <<volume_queue, worker_stop, workerVars, vnow, submitted, htVars, qmVars, grVars, geoVars, pinchVars>>

\* Time passes.
Tick ==
    /\ vnow < MaxVTime
    /\ vnow' = vnow + 1
    /\ UNCHANGED <<volume_queue, worker_stop, workerVars, submitted, cleanupVars, htVars, qmVars, grVars, geoVars, pinchVars>>

\* Line 69: the loop condition.
WorkerLoop ==
    /\ wpc = "loop"
    /\ wpc' = IF worker_stop THEN "done" ELSE "get"
    /\ wake_at' = IF worker_stop THEN wake_at ELSE vnow + GetTimeout
    /\ UNCHANGED <<volume_queue, worker_stop, vol, latest, last_call, taken, burst_first,
                   calls, vnow, submitted, cleanupVars, htVars, qmVars, grVars, geoVars, pinchVars>>

\* The get as it would be without a timeout: it waits for a value for ever.
get_times_out_Never(t, deadline) == FALSE

\* Line 72: get(timeout=0.1) gives up on an empty queue once the timeout
\* has passed.
get_times_out(t, deadline) == t >= deadline

\* Lines 70-76: get(timeout=0.1) returns a value, or raises Empty at the timeout.
WorkerGet ==
    /\ wpc = "get"
    /\ \/ /\ volume_queue # <<>>
          /\ vol' = Some(Head(volume_queue))
          /\ latest' = Some(Head(volume_queue))
          /\ volume_queue' = Tail(volume_queue)
          /\ taken' = taken + 1
          /\ burst_first' = taken + 1
          /\ wpc' = "drain"
       \/ /\ volume_queue = <<>>
          /\ get_times_out(vnow, wake_at)
          /\ wpc' = "loop"
          /\ UNCHANGED <<vol, latest, volume_queue, taken, burst_first>>
    /\ UNCHANGED <<worker_stop, last_call, wake_at, calls, vnow, submitted, cleanupVars, htVars, qmVars, grVars, geoVars, pinchVars>>

\* Lines 77-81: one get_nowait of the drain loop.
WorkerDrain ==
    /\ wpc = "drain"
    /\ \/ /\ volume_queue # <<>>
          /\ latest' = Some(DrainStep(Val(latest), Head(volume_queue)))
          /\ volume_queue' = Tail(volume_queue)
          /\ taken' = taken + 1
          /\ wpc' = "drain"
       \/ /\ volume_queue = <<>>
          /\ wpc' = "rate"
          /\ UNCHANGED <<latest, volume_queue, taken>>
    /\ UNCHANGED <<worker_stop, vol, last_call, wake_at, burst_first, calls, vnow,
                   submitted, cleanupVars, htVars, qmVars, grVars, geoVars, pinchVars>>

\* The wait as it would be without the rate limit.
rate_wait_NoLimit(t, last) == 0

\* Lines 83-84: how long the worker still has to wait at time t after a
\* call that was recorded at time last.
rate_wait(t, last) == Max2(0, MinInterval - (t - last))

\* Lines 83-86: the rate limit; sleep(wait) is entered when wait > 0.
WorkerRate ==
    /\ wpc = "rate"
    /\ LET wait == rate_wait(vnow, last_call)
       IN  /\ wpc' = IF wait > 0 THEN "sleep" ELSE "call"
           /\ wake_at' = vnow + wait
    /\ UNCHANGED <<volume_queue, worker_stop, vol, latest, last_call, taken, burst_first,
                   calls, vnow, submitted, cleanupVars, htVars, qmVars, grVars, geoVars, pinchVars>>

\* Line 86: time.sleep(wait) returns.
WorkerWake ==
    /\ wpc = "sleep"
    /\ vnow >= wake_at
    /\ wpc' = "call"
    /\ UNCHANGED <<volume_queue, worker_stop, vol, latest, last_call, wake_at, taken,
                   burst_first, calls, vnow, submitted, cleanupVars, htVars, qmVars, grVars, geoVars, pinchVars>>

\* The worker as it would be if an exception of set_volume ended the thread.
after_call_Propagate(raised) == IF raised THEN "done" ELSE "called"

\* Lines 87-91: where the worker goes on after set_volume; `except
\* Exception: pass` leads to line 92 as a normal return does.
after_call(raised) == "called"

\* Lines 87-91: set_volume(latest); an exception it raises is swallowed.
WorkerCall ==
    /\ wpc = "call"
    /\ \E raised \in BOOLEAN :
          /\ calls' = Append(calls, [value |-> Val(latest), first |-> burst_first,
                                     last |-> taken, at |-> vnow, raised |-> raised])
          /\ wpc' = after_call(raised)
    /\ UNCHANGED <<volume_queue, worker_stop, vol, latest, last_call, wake_at, taken,
                   burst_first, vnow, submitted, cleanupVars, htVars, qmVars, grVars, geoVars, pinchVars>>

\* Line 92: last_call = time.time().
WorkerCalled ==
    /\ wpc = "called"
    /\ last_call' = vnow
    /\ wpc' = "loop"
    /\ UNCHANGED <<volume_queue, worker_stop, vol, latest, wake_at, taken, burst_first,
                   calls, vnow, submitted, cleanupVars, htVars, qmVars, grVars, geoVars, pinchVars>>

NextVol ==
    \/ Submit
    \/ Cleanup
    \/ CleanupCheck
    \/ CleanupJoin
    \/ Tick
    \/ WorkerLoop
    \/ WorkerGet
    \/ WorkerDrain
    \/ WorkerRate
    \/ WorkerWake
    \/ WorkerCall
    \/ WorkerCalled

SpecVol == Init /\ [][NextVol]_vars

\* The frame thread hands a value to _enqueue_volume (at most
\* MaxLiveSubmits times).
SubmitLive ==
    /\ Len(submitted) < MaxLiveSubmits
    /\ \E volume \in Volumes :
          /\ volume_queue' = enqueue_volume(volume_queue, volume)
          /\ submitted' = Append(submitted, volume)
    /\ UNCHANGED <<worker_stop, workerVars, vnow, cleanupVars, htVars, qmVars, grVars, geoVars, pinchVars>>

\* Time passes, counted up to LiveHorizon.
TickLive ==
    /\ vnow < LiveHorizon
    /\ vnow' = vnow + 1
    /\ UNCHANGED <<volume_queue, worker_stop, workerVars, submitted, cleanupVars, htVars, qmVars, grVars, geoVars, pinchVars>>

\* Time goes on after the last instant the clock counts: every wait that is
\* still pending then comes to its end.
Beyond ==
    /\ vnow = LiveHorizon
    /\ wake_at > LiveHorizon \/ join_deadline > LiveHorizon
    /\ wake_at' = Min2(wake_at, LiveHorizon)
    /\ join_deadline' = Min2(join_deadline, LiveHorizon)
    /\ UNCHANGED <<volume_queue, worker_stop, wpc, vol, latest, last_call, taken,
                   burst_first, calls, vnow, submitted, cpc, cleanup_out, htVars, qmVars, grVars, geoVars, pinchVars>>

WorkerStep ==
    \/ WorkerLoop
    \/ WorkerGet
    \/ WorkerDrain
    \/ WorkerRate
    \/ WorkerWake
    \/ WorkerCall
    \/ WorkerCalled

NextVolLive ==
    \/ SubmitLive
    \/ Cleanup
    \/ CleanupCheck
    \/ CleanupJoin
    \/ TickLive
    \/ Beyond
    \/ WorkerLoop
    \/ WorkerGet
    \/ WorkerDrain
    \/ WorkerRate
    \/ WorkerWake
    \/ WorkerCall
    \/ WorkerCalled

\* The worker thread and the thread in cleanup are scheduled, time passes,
\* and a set_volume call in flight returns.
SpecVolLive ==
    /\ Init
    /\ [][NextVolLive]_vars
    /\ WF_vars(TickLive)
    /\ WF_vars(Beyond)
    /\ WF_vars(WorkerStep)
    /\ WF_vars(CleanupCheck \/ CleanupJoin)

(***************************************************************************)
(* Claims about the dispatcher, checked under SpecVol.                     *)
(***************************************************************************)
\* C10: the values the worker takes in one drain (submitted[first..last])
\* lead to exactly one set_volume call, which carries the last of them;
\* the drains follow each other without gap or overlap, so no earlier
\* value of a drain is sent and no drain is left without its call.
C10_Coalescing ==
    /\ \A k \in 1..Len(calls) :
          /\ calls[k].first <= calls[k].last
          /\ calls[k].last <= Len(submitted)
          /\ calls[k].value = submitted[calls[k].last]
          /\ calls[k].first = (IF k = 1 THEN 1 ELSE calls[k - 1].last + 1)
    /\ wpc \in {"loop", "get", "done"} =>
          taken = (IF calls = <<>> THEN 0 ELSE calls[Len(calls)].last)

\* 10, 20 and 35 were submitted before the worker drained, and the one
\* call of that drain has been issued.
C10_Witness ==
    /\ submitted = <<10, 20, 35>>
    /\ Len(calls) = 1
    /\ calls[1].first = 1
    /\ calls[1].last = 3
    /\ calls[1].value = 35
    /\ wpc = "loop"

\* C11: every set_volume call carries the value submitted last before the
\* call is issued, also when that value was submitted after the drain, while
\* the worker was waiting out the rate limit.
C11_NoSupersededValueSent ==
    [][(wpc = "call" /\ wpc' = "called") =>
          /\ submitted # <<>>
          /\ calls'[Len(calls')].value = submitted[Len(submitted)]]_vars

\* C12: the store of pending values holds at most one value.
C12_SingleSlot == Len(volume_queue) <= 1

\* C13: any two consecutive set_volume calls are issued at least
\* MinInterval (0.5 s) apart, however close together the values were
\* submitted.
C13_RateLimit ==
    \A k \in 1..(Len(calls) - 1) : calls[k + 1].at - calls[k].at >= MinInterval

\* Two submitted values were sent by two calls, the second issued exactly
\* MinInterval after the first.
C13_Witness ==
    /\ Len(calls) = 2
    /\ calls[1].last = 1
    /\ calls[2].first = 2
    /\ calls[1].at = StartTime
    /\ calls[2].at = StartTime + MinInterval

\* C14: an exception of set_volume does not end the worker: the worker ends
\* only after the stop signal, and a value submitted after a call that
\* raised is covered by a later call, unless the stop signal is set.
C14_WorkerSurvivesFailure ==
    /\ [](wpc = "done" => worker_stop)
    /\ \A i \in 1..MaxLiveSubmits :
          (/\ Len(submitted) >= i
           /\ \E k \in 1..Len(calls) : calls[k].raised /\ calls[k].last < i)
          ~> (worker_stop \/ \E k \in 1..Len(calls) : calls[k].last >= i)

\* A call raised, and a value submitted after it was sent by the next call.
C14_Witness ==
    /\ Len(calls) = 2
    /\ calls[1].raised
    /\ calls[2].first > calls[1].last
    /\ ~worker_stop

\* C15: once cleanup has set the stop signal the worker comes to its end
\* (its get is a poll with a timeout, so an empty queue does not hold it),
\* and the join in cleanup returns, whether the worker has ended or not.
C15_StopTerminates ==
    /\ worker_stop ~> (wpc = "done")
    /\ (cpc = "join") ~> (cpc = "returned")

\* The stop signal found the worker waiting on an empty queue, and the
\* worker has ended and cleanup has returned.
C15_Witness ==
    /\ worker_stop
    /\ wpc = "done"
    /\ cpc = "returned"
    /\ volume_queue = <<>>
    /\ calls = <<>>

\* C16: when the join has timed out and the worker is still alive, cleanup
\* hands a shutdown warning to its caller, and it does not raise.
C16_ShutdownWarning ==
    [][(cpc = "join" /\ cpc' = "returned" /\ wpc # "done") =>
          /\ cleanup_out'[1].warning
          /\ ~cleanup_out'[1].raised]_vars

(***************************************************************************)
(* Claims about external calls and the creation of a region, checked under *)
(* Spec.                                                                   *)
(***************************************************************************)
\* C17: no call to the external service (play/pause, next, previous, current
\* track) is made on the frame thread, neither in process_frame nor in the
\* main loop.
C17_NoFrameThreadIO == frame_io = {}

\* The pinch points of a frame with two pinching hands, as lines 293-296
\* collect them.
PinchPoints(hands) == <<hands[1].thumb, hands[1].index, hands[2].thumb, hands[2].index>>

\* C18: with a spawn request pending and no region, the first frame that
\* shows exactly 4 pinch points commits the region at once, and the region
\* is the bounding rectangle of the 4 points.
C18_SpawnCommitsAtOnce ==
    [][(/\ pc = "loop" /\ pc' = "relay"
        /\ spawned_app # None
        /\ ~HasQuad(quad_points)
        /\ FourPinchPoints(frame_hands')) =>
          quad_points' = get_rectangle_from_points(PinchPoints(frame_hands'))]_vars

\* C19: without a spawn request, a frame that begins with no region commits
\* one exactly when 4 pinch points have been shown on every frame for
\* HoldDuration (2 s) by then: never earlier, and on the first such frame.
C19_HoldCommits ==
    [][(/\ pc = "loop" /\ pc' = "relay"
        /\ spawned_app = None
        /\ ~HasQuad(quad_points)) =>
          (HasQuad(quad_points') <=>
              (hold_since' # None /\ now' - Val(hold_since') >= HoldDuration))]_vars

\* C20: a frame that does not show exactly 4 pinch points leaves the pinch
\* timer cleared, and a running timer never started before the present
\* unbroken run of frames with 4 pinch points, so that time held before an
\* interruption is not counted.
C20_InterruptionResets ==
    /\ (pc = "relay" /\ ~FourPinchPoints(frame_hands)) => pinched_start_time = None
    /\ pinched_start_time # None =>
          (hold_since # None /\ Val(hold_since) <= Val(pinched_start_time))

\* The timer was running, and a frame with one pinching hand has cleared it
\* before a region was committed.
C20_Witness ==
    /\ pc = "relay"
    /\ timer_before # None
    /\ Len(frame_hands) = 1
    /\ Pinching(frame_hands[1])
    /\ pinched_start_time = None
    /\ ~HasQuad(quad_points)

\* C21: the create step never commits a region whose bounding rectangle has
\* no width or no height, neither on a spawn request nor after the hold.
C21_NoDegenerateCommit ==
    [][(/\ pc = "loop" /\ pc' = "relay"
        /\ ~HasQuad(quad_points)
        /\ HasQuad(quad_points')
        /\ FourPinchPoints(frame_hands')) =>
          ~Degenerate(quad_points')]_vars

\* The thumb tip or the index tip of the hand is within grab distance of
\* corner i of the region (line 272).
NearCorner(hand, qp, i) ==
    \/ is_near_corner(hand.thumb, qp[i + 1], CornerThreshold)
    \/ is_near_corner(hand.index, qp[i + 1], CornerThreshold)

\* C22: while no drag is on, a frame with a single pinching hand within grab
\* distance of any of the 4 corners of the region leaves the tracker
\* dragging, with one of the corners in reach recorded.
C22_DragFromAnyCorner ==
    [][(/\ pc = "loop" /\ pc' = "relay"
        /\ HasQuad(quad_points)
        /\ ~dragging_window
        /\ Len(frame_hands') = 1
        /\ Pinching(frame_hands'[1])
        /\ \E i \in 0..3 : NearCorner(frame_hands'[1], quad_points, i)
        /\ HasQuad(quad_points')) =>
          /\ dragging_window'
          /\ \E i \in 0..3 : /\ NearCorner(frame_hands'[1], quad_points, i)
                             /\ drag_corner_index' = Some(i)]_vars

\* C23: only the hand that started a drag moves the region.  On the frame in
\* which a drag starts the starting hand holds the corner where it is (the
\* offset is taken from it), so the region is not moved on that frame: no
\* other pinching hand's midpoint translates it.
C23_OnlyDraggingHandMoves ==
    [][(/\ pc = "loop" /\ pc' = "relay"
        /\ HasQuad(quad_points)
        /\ ~dragging_window
        /\ dragging_window'
        /\ HasQuad(quad_points')) =>
          quad_points' = quad_points]_vars

\* The hand holds the dragged corner: it pinches, and its pinch midpoint is
\* where the drag keeps it, at the recorded offset from the recorded corner.
IsDraggingHand(hand) ==
    /\ Pinching(hand)
    /\ drag_corner_index # None
    /\ LET corner == quad_points[Val(drag_corner_index) + 1]
       IN  pinch_center(hand) = <<corner[1] + drag_offset[1], corner[2] + drag_offset[2]>>

\* C24: a drag goes on while the dragging hand stays pinched: a frame in
\* which that hand is still pinching leaves the tracker dragging, whatever
\* any other hand in the frame does.
C24_DragHeldWhilePinched ==
    [][(/\ pc = "loop" /\ pc' = "relay"
        /\ HasQuad(quad_points)
        /\ dragging_window
        /\ \E i \in 1..Len(frame_hands') : IsDraggingHand(frame_hands'[i])
        /\ HasQuad(quad_points')) =>
          dragging_window']_vars

(***************************************************************************)
(* GestureRecognizer and CloseGestureDetector                              *)
(* (src/src/hand_tracker_components/gesture_recognition.py).               *)
(***************************************************************************)
rotation_threshold == 17

\* Wrist angles in degrees, from atan2: above -180 and up to 180.
GRAngles == {-175, -170, 0, 10, 17, 20, 170, 180}

\* Index tips: near the top-right corner (896, 270) of the default quad,
\* exactly 150 px from it, and far from it.
GRIndexTips == {<<900, 280>>, <<1046, 270>>, <<120, 620>>}

GRQuads == {<<>>, default_quad(FrameH, FrameW)}

\* Pairs of thumb tip and index tip, each with its Euclidean distance.
GRPinchCases ==
    {[a |-> <<10, 10>>,   b |-> <<10, 10>>,   dist |-> 0],
     [a |-> <<0, 0>>,     b |-> <<49, 0>>,    dist |-> 49],
     [a |-> <<0, 0>>,     b |-> <<30, 40>>,   dist |-> 50],
     [a |-> <<50, 0>>,    b |-> <<0, 0>>,     dist |-> 50],
     [a |-> <<0, 0>>,     b |-> <<0, 51>>,    dist |-> 51],
     [a |-> <<100, 199>>, b |-> <<100, 100>>, dist |-> 99],
     [a |-> <<100, 100>>, b |-> <<160, 180>>, dist |-> 100],
     [a |-> <<100, 100>>, b |-> <<201, 100>>, dist |-> 101]}

GRThresholds == {50, 100}

\* CloseGestureDetector.check_close_gesture on the detector's start angle:
\* [ret, start, diff] with start the start angle after the call and diff the
\* value of angle_diff where the call computes it.
GR_check_close_gesture(start_angle, index, angle, quad) ==
    IF Len(quad) # 4 THEN [ret |-> FALSE, start |-> start_angle, diff |-> None]
    ELSE IF ~is_near_corner(index, quad[2], CloseZoneThreshold)
    THEN [ret |-> FALSE, start |-> None, diff |-> None]
    ELSE IF start_angle = None
    THEN [ret |-> FALSE, start |-> Some(angle), diff |-> None]
    ELSE LET d == angle_diff(angle, Val(start_angle))
         IN  IF d >= rotation_threshold
             THEN [ret |-> TRUE, start |-> None, diff |-> Some(d)]
             ELSE [ret |-> FALSE, start |-> start_angle, diff |-> Some(d)]

\* One call of check_close_gesture.
GRCheckClose ==
    \E index \in GRIndexTips, angle \in GRAngles, quad \in GRQuads :
        LET r == GR_check_close_gesture(gr_start_angle, index, angle, quad)
        IN  /\ gr_start_angle' = r.start
            /\ gr_last' = [op |-> "check_close_gesture", quad |-> quad, index |-> index,
                           angle |-> angle, start |-> gr_start_angle,
                           diff |-> r.diff, ret |-> r.ret]
            /\ UNCHANGED <<htVars, qmVars, volVars, geoVars, pinchVars>>

\* One call of is_pinched.
GRIsPinched ==
    \E c \in GRPinchCases, threshold \in GRThresholds :
        /\ gr_last' = [op |-> "is_pinched", case |-> c, threshold |-> threshold,
                       ret |-> is_pinched(c.a, c.b, threshold)]
        /\ UNCHANGED <<gr_start_angle, htVars, qmVars, volVars, geoVars, pinchVars>>

NextGR ==
    \/ GRCheckClose
    \/ GRIsPinched

SpecGR == Init /\ [][NextGR]_vars

(***************************************************************************)
(* Claims about the gesture classifiers, checked under SpecGR.             *)
(***************************************************************************)
GRLast(name) == gr_last # None /\ gr_last.op = name

\* A call of check_close_gesture that compared the angle with a start angle.
GRCompared == GRLast("check_close_gesture") /\ gr_last.diff # None

\* C25: the rotation computed from a start angle and a current angle is
\* min(|a - b|, 360 - |a - b|), and it is between 0 and 180.
C25_RotationDelta ==
    GRCompared =>
        LET raw == Abs(gr_last.angle - Val(gr_last.start))
        IN  /\ Val(gr_last.diff) = Min2(raw, 360 - raw)
            /\ Val(gr_last.diff) >= 0
            /\ Val(gr_last.diff) <= 180

\* Start angle 170 and current angle -170: the rotation is 20.
C25_Witness ==
    /\ GRCompared
    /\ Val(gr_last.start) = 170
    /\ gr_last.angle = -170
    /\ Val(gr_last.diff) = 20

\* C26: with a start angle latched and the hand in the close zone, the call
\* closes the region exactly when the rotation exceeds the threshold of 17.
C26_ClosesIffExceeds ==
    GRCompared => (gr_last.ret <=> Val(gr_last.diff) > rotation_threshold)

\* C30: is_pinched is true exactly when the Euclidean distance of the two
\* points is below the threshold, and false when it is the threshold or more.
C30_PinchStrictlyBelow ==
    GRLast("is_pinched") => (gr_last.ret <=> gr_last.case.dist < gr_last.threshold)

\* Two points 30 across and 40 down from each other, exactly the threshold
\* of 50 apart: not pinched.
C30_Witness ==
    /\ GRLast("is_pinched")
    /\ gr_last.case.a = <<0, 0>>
    /\ gr_last.case.b = <<30, 40>>
    /\ gr_last.threshold = 50
    /\ ~gr_last.ret

(***************************************************************************)
(* Claims about the close gesture and the order of the steps of a frame,   *)
(* checked under Spec.                                                     *)
(***************************************************************************)
\* The index tip of the hand is outside the close zone of the region.
OutsideCloseZone(hand, qp) == ~is_near_corner(hand.index, qp[2], CloseZoneThreshold)

\* C27: leaving the close zone resets the tracker: after a frame in which a
\* hand's index tip is outside the close zone of the region, no start angle
\* is latched (the region stays where it is throughout the frame: no drag
\* is on).
C27_LeavingZoneResets ==
    [][(/\ pc = "loop" /\ pc' = "relay"
        /\ HasQuad(quad_points)
        /\ quad_points' = quad_points
        /\ ~dragging_window /\ ~dragging_window'
        /\ \E i \in 1..Len(frame_hands') : OutsideCloseZone(frame_hands'[i], quad_points)) =>
          close_gesture_start_angle' = None]_vars

\* What one pass of the loop body may do: `before` and `after` are the
\* tracker around the pass for `hand`, and `closes` tells whether the hand
\* met the close condition.
StepPriority(before, after, closes, hand) ==
    IF closes
    THEN /\ ~HasQuad(after.quad_points)
         /\ after.gesture_closed_window
         /\ after.pts = before.pts
         /\ after.dragging_window = before.dragging_window
         /\ after.drag_corner_index = before.drag_corner_index
         /\ after.drag_offset = before.drag_offset
    ELSE (Pinching(hand) /\ after.dragging_window) => after.pts = before.pts

RECURSIVE StepsPriority(_, _)
StepsPriority(s, hands) ==
    \/ hands = <<>>
    \/ LET after == HandBody(s, Head(hands))
       IN  /\ StepPriority(s, after, check_close_gesture(s, Head(hands)).ret, Head(hands))
           /\ StepsPriority(after, Tail(hands))

\* C28: the order of the steps for one hand of a frame.  A hand that meets
\* the close condition closes the region and is used for nothing else: the
\* drag fields and the collected pinch points are as they were.  A pinching
\* hand that starts or continues a drag adds no pinch points for creation.
C28_ClosePriorDragPriorCreate ==
    [][(pc = "loop" /\ pc' = "relay") =>
          StepsPriority([Tracker EXCEPT !.pts = <<>>], frame_hands')]_vars

\* A single pinching hand has closed the region while no drag was on.
C28_Witness ==
    /\ pc = "relay"
    /\ gesture_closed_window
    /\ Len(frame_hands) = 1
    /\ Pinching(frame_hands[1])
    /\ ~dragging_window

\* C29: a gesture close is relayed once.  The pass of the main loop in which
\* the close fired ends with no current app, no spawn request and the event
\* flag reset, and the flag is never up when a pass begins, so the same close
\* is not relayed again.
C29_CloseRelayedOnce ==
    /\ [][(pc = "relay" /\ gesture_closed_window /\ pc' = "loop") =>
              /\ current_app' = None
              /\ spawned_app' = None
              /\ ~gesture_closed_window']_vars
    /\ [](pc = "loop" => ~gesture_closed_window)

\* The gesture has closed the region of the current app, and the relay is
\* next.
C29_Witness ==
    /\ pc = "relay"
    /\ gesture_closed_window
    /\ current_app = Some("Spotify")
    /\ ~HasQuad(quad_points)

(***************************************************************************)
(* Claims about the regions handed to the renderer, checked under SpecQM.  *)
(***************************************************************************)
\* C31: get_all_app_regions reports every region of all_app_quads once and
\* in the order of insertion, each with its 4 corner points and an opacity
\* between 0.0 and 1.0: none is left out.
C31_EveryRegionReported ==
    LastOp("get_all_app_regions") =>
        /\ Len(qm_last.ret) = Len(qm_all_app_quads)
        /\ \A i \in 1..Len(qm_last.ret) :
              /\ i <= Len(qm_all_app_quads)
              /\ qm_last.ret[i].rect_points = qm_all_app_quads[i].quad_points
              /\ Len(qm_last.ret[i].rect_points) = 4
              /\ qm_last.ret[i].opacity_percent >= 0
              /\ qm_last.ret[i].opacity_percent <= 100

\* The position that a call of update_quad_resize gives for corner i.
PosOf(corner_positions, i) ==
    IF corner_positions[1][1] = i THEN corner_positions[1][2] ELSE corner_positions[2][2]

\* The rectangle spanned by the two positions of a diagonal pair: the given
\* corners where they are put, the other two taking one coordinate of each.
DiagonalRectangle(corner_positions) ==
    IF {corner_positions[1][1], corner_positions[2][1]} = {0, 2}
    THEN LET tl == PosOf(corner_positions, 0)
             br == PosOf(corner_positions, 2)
         IN  <<tl, <<br[1], tl[2]>>, br, <<tl[1], br[2]>>>>
    ELSE LET tr == PosOf(corner_positions, 1)
             bl == PosOf(corner_positions, 3)
         IN  <<<<bl[1], tr[2]>>, tr, <<tr[1], bl[2]>>, bl>>

\* C32: update_quad_resize with a diagonal pair puts the two given corners
\* at the given positions and recomputes the other two from them (top-right
\* = (bottom-right.x, top-left.y), bottom-left = (top-left.x,
\* bottom-right.y), and likewise for the other diagonal), in whichever order
\* the two corners are listed.
C32_ResizeCorners ==
    (LastOp("update_quad_resize") /\ IsDiagonalCall(qm_last.args) /\ HasQuad(qm_quad_points))
        => qm_quad_points = DiagonalRectangle(qm_last.args)

\* A resize that lists the bottom-right corner first, then the top-left.
C32_Witness ==
    /\ LastOp("update_quad_resize")
    /\ HasQuad(qm_quad_points)
    /\ qm_last.args = << <<2, <<2, 1>>>>, <<0, <<0, 0>>>> >>
    /\ qm_quad_points = << <<0, 0>>, <<2, 0>>, <<2, 1>>, <<0, 1>> >>

\* The corner points of the region created last, as get_all_app_regions
\* reports them (None when it reports no region).
LastReported(all_app_quads) ==
    LET regions == get_all_app_regions(all_app_quads)
    IN  IF regions = <<>> THEN None ELSE Some(regions[Len(regions)].rect_points)

\* C36: the reported regions stay in step with manipulation.  When the
\* region created last is reported with the manager's quad_points, it still
\* is after an update_quad_position or update_quad_resize call, so that a
\* drag or a resize is seen by the renderer.
C36_RegionSetInStep ==
    [][(/\ qm_last' # None
        /\ qm_last'.op \in {"update_quad_position", "update_quad_resize"}
        /\ qm_calls' = qm_calls + 1
        /\ LastReported(qm_all_app_quads) = Some(qm_quad_points)) =>
          LastReported(qm_all_app_quads') = Some(qm_quad_points')]_vars

(***************************************************************************)
(* The functions that compute rectangles: get_rectangle_from_points and    *)
(* create_default_quad (quad_manager.py; the same code in handtracker.py). *)
(***************************************************************************)
\* Points handed to get_rectangle_from_points, 1 to MaxPoints at a time.
RectPoints == {<<0, 0>>, <<2, 1>>, <<1, 3>>, <<-1, 2>>, <<2, 3>>}
MaxPoints == 3

\* Frame sizes (height, width): two camera sizes and two small frames.
FrameShapes == {<<720, 1280>>, <<480, 640>>, <<120, 160>>, <<60, 80>>}

\* One call of get_rectangle_from_points.
GeoRectangle ==
    \E points \in SeqsUpTo(RectPoints, MaxPoints) \ {<<>>} :
        /\ geo_last' = [op |-> "get_rectangle_from_points", args |-> points,
                        ret |-> get_rectangle_from_points(points)]
        /\ UNCHANGED <<htVars, qmVars, volVars, grVars, pinchVars>>

\* get_rectangle_from_points called with the rectangle it returned last.
GeoRectangleAgain ==
    /\ geo_last # None
    /\ geo_last.op = "get_rectangle_from_points"
    /\ geo_last' = [op |-> "get_rectangle_from_points", args |-> geo_last.ret,
                    ret |-> get_rectangle_from_points(geo_last.ret)]
    /\ UNCHANGED <<htVars, qmVars, volVars, grVars, pinchVars>>

\* One call of create_default_quad.
GeoDefaultQuad ==
    \E shape \in FrameShapes :
        /\ geo_last' = [op |-> "create_default_quad", args |-> shape,
                        ret |-> create_default_quad(shape[1], shape[2])]
        /\ UNCHANGED <<htVars, qmVars, volVars, grVars, pinchVars>>

NextGeo ==
    \/ GeoRectangle
    \/ GeoRectangleAgain
    \/ GeoDefaultQuad

SpecGeo == Init /\ [][NextGeo]_vars

GeoLast(name) == geo_last # None /\ geo_last.op = name

\* C34: the rectangle of a non-empty list of points is ordered top-left,
\* top-right, bottom-right, bottom-left with non-negative width and height,
\* contains every point, has a point on each of its four sides (so no
\* smaller rectangle contains them), and is its own rectangle.
C34_BoundingRectangle ==
    GeoLast("get_rectangle_from_points") =>
        LET points == geo_last.args
            r == geo_last.ret
            on == 1..Len(points)
        IN  /\ IsOrderedRectangle(r)
            /\ \A i \in on : /\ r[1][1] <= points[i][1] /\ points[i][1] <= r[3][1]
                             /\ r[1][2] <= points[i][2] /\ points[i][2] <= r[3][2]
            /\ \E i \in on : points[i][1] = r[1][1]
            /\ \E i \in on : points[i][1] = r[3][1]
            /\ \E i \in on : points[i][2] = r[1][2]
            /\ \E i \in on : points[i][2] = r[3][2]
            /\ get_rectangle_from_points(r) = r

\* The function was given the rectangle it had returned for other points,
\* and returned it again.
C34_Witness ==
    /\ GeoLast("get_rectangle_from_points")
    /\ geo_last.args = << <<-1, 0>>, <<2, 0>>, <<2, 3>>, <<-1, 3>> >>
    /\ geo_last.ret = geo_last.args

\* C35: the default rectangle lies within the frame, whatever the size of
\* the frame.
C35_DefaultWithinFrame ==
    GeoLast("create_default_quad") =>
        LET h == geo_last.args[1]
            w == geo_last.args[2]
            r == geo_last.ret
        IN  \A i \in 1..4 : /\ 0 <= r[i][1] /\ r[i][1] <= w
                            /\ 0 <= r[i][2] /\ r[i][2] <= h

(***************************************************************************)
(* Claims about drag anchoring and about creation after a removal, checked *)
(* under Spec.                                                             *)
(***************************************************************************)
\* The point a pinch midpoint c lies at, less the offset.
LessOffset(c, offset) == <<c[1] - offset[1], c[2] - offset[2]>>

\* C33: drag anchoring.  The frame that starts a drag records the offset of
\* a pinch midpoint from the grabbed corner and leaves the region where it
\* is; a later frame of the drag in which every hand pinches keeps the offset
\* and the corner index, and puts the grabbed corner at a pinch midpoint less
\* the offset.
C33_DragAnchoring ==
    [][(/\ pc = "loop" /\ pc' = "relay"
        /\ HasQuad(quad_points) /\ HasQuad(quad_points')
        /\ dragging_window'
        /\ drag_corner_index' # None
        /\ frame_hands' # <<>>
        /\ \A i \in 1..Len(frame_hands') : Pinching(frame_hands'[i])) =>
          LET k == Val(drag_corner_index') + 1
          IN  IF ~dragging_window
              THEN /\ quad_points' = quad_points
                   /\ \E i \in 1..Len(frame_hands') :
                         quad_points[k] = LessOffset(pinch_center(frame_hands'[i]), drag_offset')
              ELSE /\ drag_offset' = drag_offset
                   /\ drag_corner_index' = drag_corner_index
                   /\ \E i \in 1..Len(frame_hands') :
                         quad_points'[k] = LessOffset(pinch_center(frame_hands'[i]), drag_offset)]_vars

\* C38: a region can be created after a removal.  A frame that begins with
\* no region and no spawn request, and by which two pinching hands have been
\* shown on every frame for HoldDuration (2 s), commits a region.
C38_CreateAfterRemoval ==
    [][(/\ pc = "loop" /\ pc' = "relay"
        /\ spawned_app = None
        /\ ~HasQuad(quad_points)
        /\ hold_since' # None
        /\ now' - Val(hold_since') >= HoldDuration) =>
          HasQuad(quad_points')]_vars

(***************************************************************************)
(* Claim about what coalescing loses, checked under SpecVolLive            *)
(***************************************************************************)

\* The last external call covers every submission and carries the last one.
LastCallIsLastSubmitted ==
    /\ calls # <<>>
    /\ calls[Len(calls)].last = Len(submitted)
    /\ calls[Len(calls)].value = submitted[Len(submitted)]

\* Every call covers a submission that no earlier call covered.
EachCallHasNewValue ==
    \A i \in 1..Len(calls) :
        calls[i].first > (IF i = 1 THEN 0 ELSE calls[i - 1].last)

\* C37: once submissions have stopped and the worker is not stopped, the
\* worker eventually issues an external call that carries the last submitted
\* value, and it issues no call without a submission that no earlier call
\* covered, so no call follows that one until a new value is submitted.
C37_LastValueDelivered ==
    /\ <>[](worker_stop \/ submitted = <<>> \/ LastCallIsLastSubmitted)
    /\ []EachCallHasNewValue

\* Two values were submitted, the first was sent on its own, and a later
\* call carried the second one.
C37_Witness ==
    /\ ~worker_stop
    /\ Len(submitted) = MaxLiveSubmits
    /\ Len(calls) >= 2
    /\ LastCallIsLastSubmitted

(***************************************************************************)
(* VolumeController.calculate_volume_from_pinch                            *)
(* (src/src/hand_tracker_components/volume_control.py, lines 31-50).       *)
(* The distance of the two fingertips stays a square, so that the level    *)
(* is computed on integers as the code computes it on floats.              *)
(***************************************************************************)

\* Fingertip positions: distances 0, 10, 24, 26, 100, 200 and 300 pixels.
PinchThumbs == {<<100, 100>>}
PinchIndexes == {<<100, 100>>, <<110, 100>>, <<124, 100>>, <<126, 100>>,
                 <<160, 180>>, <<300, 100>>, <<100, 400>>}
MaxPinchCalls == 3

\* Lines 36-43: int(np.clip((pinch_dist - 20) / (200 - 20) * 100, 0, 100)).
\* The level is the largest v in 0..100 with 20 + 9v/5 <= pinch_dist, that
\* is (9v + 100)^2 <= 25 * pinch_dist^2, and 0 below 20 pixels.
pinch_volume(thumb_xy, index_xy) ==
    LET d2 == Dist2(thumb_xy, index_xy)
        S  == {v \in 0..100 : (9 * v + 100) * (9 * v + 100) <= 25 * d2}
    IN  IF S = {} THEN 0 ELSE SetMax(S)

\* The test as it would be if every change were passed on.
significant_change_Any(volume, last) == volume # last

\* Line 46: abs(volume - self.last_volume_set) > 2.
significant_change(volume, last) == Abs(volume - last) > 2

\* One call of calculate_volume_from_pinch.
VC_calculate_volume_from_pinch ==
    /\ vc_calls < MaxPinchCalls
    /\ vc_calls' = vc_calls + 1
    /\ \E thumb_xy \in PinchThumbs, index_xy \in PinchIndexes :
        LET volume == pinch_volume(thumb_xy, index_xy)
            submit == /\ volume_gesture_enabled
                      /\ significant_change(volume, last_volume_set)
        IN  /\ vc_last' = [thumb_xy |-> thumb_xy, index_xy |-> index_xy,
                           ret |-> IF volume_gesture_enabled
                                   THEN Some(volume) ELSE None]
            /\ volume_queue' = IF submit THEN enqueue_volume(volume_queue, volume)
                               ELSE volume_queue
            /\ submitted' = IF submit THEN Append(submitted, volume) ELSE submitted
            /\ last_volume_set' = IF submit THEN volume ELSE last_volume_set
    /\ UNCHANGED <<volume_gesture_enabled, worker_stop, workerVars, vnow, cleanupVars,
                   htVars, qmVars, grVars, geoVars>>

\* The owner of the controller switches the volume gesture on or off.
VC_toggle_volume_gesture ==
    /\ volume_gesture_enabled' = ~volume_gesture_enabled
    /\ UNCHANGED <<last_volume_set, vc_last, vc_calls,
                   htVars, qmVars, volVars, grVars, geoVars>>

NextPinch ==
    \/ VC_calculate_volume_from_pinch
    \/ VC_toggle_volume_gesture

SpecPinch == Init /\ [][NextPinch]_vars

(***************************************************************************)
(* Claim about the volume submission filter, checked under SpecPinch       *)
(***************************************************************************)

\* C39: a call of calculate_volume_from_pinch submits a value only when the
\* volume gesture is enabled and the level differs from last_volume_set by
\* more than 2; every submitted value is an integer in 0..100;
\* last_volume_set is the value submitted last, 0 before any submission;
\* with the gesture disabled the call returns None and changes no state.
C39_SubmissionFilter ==
    [][vc_calls' # vc_calls =>
        /\ submitted' # submitted =>
             /\ volume_gesture_enabled
             /\ vc_last'.ret # None
             /\ Abs(Val(vc_last'.ret) - last_volume_set) > 2
             /\ submitted' = Append(submitted, Val(vc_last'.ret))
        /\ \A i \in 1..Len(submitted') : submitted'[i] \in 0..100
        /\ last_volume_set' = IF submitted' = <<>> THEN 0
                              ELSE submitted'[Len(submitted')]
        /\ ~volume_gesture_enabled =>
             /\ vc_last'.ret = None
             /\ UNCHANGED <<volume_gesture_enabled, last_volume_set,
                            volume_queue, submitted>>]_vars

\* Two levels were submitted, and the last call, with the gesture enabled,
\* returned a level within 2 of the second one and submitted nothing.
C39_Witness ==
    /\ volume_gesture_enabled
    /\ vc_calls = 3
    /\ Len(submitted) = 2
    /\ vc_last # None
    /\ vc_last.ret # None
    /\ Val(vc_last.ret) # last_volume_set
    /\ last_volume_set = submitted[2]

====
